---- MODULE Spec2Model ----
(***************************************************************************)
(* Hohonu_QARTOD: one run of the Streamlit script src/src/app.py over a    *)
(* loaded series.  The script is executed top to bottom; every             *)
(* `with st.expander(...)` block that configures and runs a QARTOD test is *)
(* one step.  qc_helpers.run_qc hands the series and the test              *)
(* configuration to the ioos_qc package; that package is not part of the   *)
(* repository sources, so its evaluators are written here from the         *)
(* contracts of spec.md sections 4 and 7 (GrossRangeTest,                  *)
(* RateOfChangeTest, SpikeTest, FlatLineTest, Aggregate,                   *)
(* ConfigurationError), while everything app.py and qc_helpers.py do       *)
(* themselves is translated from the code.                                 *)
(*                                                                         *)
(* A session (SpecSession) starts before the series is loaded: the adapter *)
(* of the provider converts what the API answered, app.py runs its blocks  *)
(* over the converted frame, and a changed widget starts the script again. *)
(* A run from the top (SpecGates) starts at the API key and passes the     *)
(* station selector and the "Load data" toggle before it loads anything.   *)
(* SpecThings is one call of ThingsApi.fetch_data, period by period, and   *)
(* SpecDefaults one call of GulfOfMaine.calculate_defaults.  The other     *)
(* specifications start with the series loaded.                            *)
(*                                                                         *)
(* Columns.  The evaluators and the plots work on the water level column   *)
(* of the frame, the field value of a row.  The names by which the         *)
(* adapter, app.py and qc_helpers.py address the columns are carried       *)
(* beside the rows (columns) and compared where a column is looked up.     *)
(*                                                                         *)
(* Numbers.  Water levels are integers on a fixed grid (one grid step is   *)
(* half a metre in the worked examples, a tenth of a millimetre where an   *)
(* adapter has converted them).  Timestamps are integer seconds.           *)
(* The rate threshold is kept as the rational rate_threshold = n / 60      *)
(* units per second, stored as n (units per minute), and every comparison  *)
(* of a rate is cross-multiplied so that it is exact.                      *)
(***************************************************************************)
EXTENDS Integers, Sequences, FiniteSets, TLC

VARIABLES
    api_key,                    \* st.secrets or st.text_input, app.py 20-30
    date_range,                 \* st.date_input, app.py 96: <<first, last>>
                                \* day, as day numbers
    load_data_button,           \* st.toggle("Load data"), app.py 112
    queries,                    \* the requests sent to the provider so far
    current_date,               \* generate_time_periods, things_api.py 122
    dfs,                        \* ThingsApi.fetch_data, things_api.py 70
    defaults,                   \* what calculate_defaults returned
    provider,                   \* whose adapter loads the series
    navd88_elevation_meters,    \* sensor elevation widget of the distance
                                \* adapters, things_api.py 180, greenstream_api.py 170
    response,                   \* what the provider's API answered
    cache,                      \* st.cache_data of fetch_data, app.py 50
    conversions,                \* how often fetch_data converted the response
    reruns,                     \* how often the script was started again
    station,                    \* load_station_info(station_id), app.py 79
    datum_inputs,               \* datum widgets, app.py 140-154, 500-520
    summary,                    \* st.text_area, app.py 532
    data,                       \* the frame returned by fetch_data
    gross_suspect_upper_limit,  \* st.number_input widgets, app.py 204-236
    gross_suspect_lower_limit,
    gross_fail_upper_limit,
    gross_fail_lower_limit,
    gross_range_test_toggle,    \* app.py 238
    rate_threshold,             \* app.py 287 (units per minute, see above)
    rate_of_change_test_toggle, \* app.py 295
    spike_suspect_threshold,    \* app.py 338
    spike_fail_threshold,       \* app.py 343
    spike_test_toggle,          \* app.py 348
    flat_line_tolerance,        \* app.py 401
    flat_line_suspect_threshold, \* app.py 407 (seconds)
    flat_line_fail_threshold,   \* app.py 411 (seconds)
    flat_line_test_toggle,      \* app.py 415
    gross_range_test_config,    \* app.py 244
    rate_of_change_test_config, \* app.py 301
    spike_test_config,          \* app.py 354
    flat_line_test_config,      \* app.py 420
    qartod,                     \* app.py 448
    gross_df,                   \* app.py 250
    rate_of_change_df,          \* app.py 306
    spike_df,                   \* app.py 360
    flat_line_df,               \* app.py 427
    all_df,                     \* app.py 471
    plot,                       \* the figure drawn last, qc_helpers.py 21-127
    station_config,             \* config of app.py 523
    error,                      \* the exception that ended the run, if any
    pc                          \* the block of app.py that runs next

sidebar == <<api_key, date_range, load_data_button, queries>>

periods == <<current_date, dfs>>

session == <<provider, navd88_elevation_meters, response, cache, conversions,
             reruns, station, datum_inputs, summary>>

inputs == <<data, gross_suspect_upper_limit, gross_suspect_lower_limit,
            gross_fail_upper_limit, gross_fail_lower_limit,
            gross_range_test_toggle, rate_threshold,
            rate_of_change_test_toggle, spike_suspect_threshold,
            spike_fail_threshold, spike_test_toggle, flat_line_tolerance,
            flat_line_suspect_threshold, flat_line_fail_threshold,
            flat_line_test_toggle>>

configs == <<gross_range_test_config, rate_of_change_test_config,
             spike_test_config, flat_line_test_config, qartod>>

frames == <<gross_df, rate_of_change_df, spike_df, flat_line_df, all_df>>

vars == <<sidebar, periods, defaults, session, inputs, configs, frames, plot,
          station_config, error, pc>>

(***************************************************************************)
(* Bounds of the model.                                                    *)
(***************************************************************************)
MaxLen == 2
MaxVal == 5
MaxRate == 3
MaxReruns == 2
MaxDays == 31
LastDay == 1

(***************************************************************************)
(* Flag codes, as the plots of qc_helpers.py read them.                    *)
(***************************************************************************)
PASS == 1
NOT_EVALUATED == 2
SUSPECT == 3
FAIL == 4

Flags == {PASS, NOT_EVALUATED, SUSPECT, FAIL}

(***************************************************************************)
(* Observations.  A value is <<v>> for a reading v and <<>> for a missing  *)
(* reading (NaN / None in the frame).                                      *)
(***************************************************************************)
NaN == <<>>
Reading(v) == <<v>>
IsNaN(x) == x = NaN
Num(x) == x[1]

Abs(x) == IF x < 0 THEN 0 - x ELSE x

Values == {Reading(v) : v \in (0 - MaxVal)..MaxVal} \cup {NaN}

\* Frames of n rows with the given timestamps column.
Frames(n, times) ==
    { [r \in 1..n |-> [time |-> times[r], value |-> vs[r]]] :
        vs \in [1..n -> Values] }

\* Timestamps 60 seconds apart, starting at 0.
Regular(n) == [r \in 1..n |-> 60 * (r - 1)]

(***************************************************************************)
(* The adapters.  A provider answers in its native unit: Hohonu in feet    *)
(* above NAVD88, The Things Network and Greenstream with the distance in   *)
(* millimetres from the sensor down to the water.  A native frame holds    *)
(* whole feet or whole millimetres; a converted frame holds water levels   *)
(* in tenths of a millimetre (1e-4 m), the unit in which 0.3048 m per foot *)
(* and 0.001 m per millimetre are both whole numbers.                      *)
(***************************************************************************)
\* hohonu_api.py 10: FEET_TO_METERS = 0.3048, in units of 1e-4.
FEET_TO_METERS == 3048

NoResponse == [answered |-> FALSE]
NoCache == [hit |-> FALSE]

\* One column of a frame times a scalar; NaN stays NaN.
Times(x, k) == IF IsNaN(x) THEN NaN ELSE Reading(Num(x) * k)

\* hohonu_api.py 124-139.
hohonu_response_to_df(resp) ==
    [i \in 1..Len(resp.rows) |->
        [time |-> resp.rows[i].time,
         value |-> Times(resp.rows[i].value, FEET_TO_METERS)]]

\* A variant of the conversion below that adds the distance to the elevation.
NavdFromDistanceAdded(elevation, rows) ==
    [i \in 1..Len(rows) |->
        [time |-> rows[i].time,
         value |-> IF IsNaN(rows[i].value) THEN NaN
                   ELSE Reading(elevation * 10000 + Num(rows[i].value) * 10)]]

\* things_api.py 78-79 and greenstream_api.py 187:
\* navd88_elevation_meters - (distance / 1_000), elevation in whole metres.
NavdFromDistance(elevation, rows) ==
    [i \in 1..Len(rows) |->
        [time |-> rows[i].time,
         value |-> IF IsNaN(rows[i].value) THEN NaN
                   ELSE Reading(elevation * 10000 - Num(rows[i].value) * 10)]]

\* The adapter of each provider, applied to what its API answered.
Adapter(p, elevation, resp) ==
    IF p = "hohonu" THEN hohonu_response_to_df(resp)
    ELSE NavdFromDistance(elevation, resp.rows)

(***************************************************************************)
(* Column names.  The evaluators and the plots are modelled over the water *)
(* level column of the frame (the field value of a row).  The names under  *)
(* which the adapter, app.py and qc_helpers.py address that column and the *)
(* flag columns are kept beside it, as the set of column names of a frame. *)
(***************************************************************************)
\* hohonu_api.py 126-137 (the forecast column is dropped when it is empty).
AdapterColumns == {"time", "navd88_meters"}

\* app.py 254, 310, 364, 431, 475: the stream every Config names.
stream == "observed"

\* qc_helpers.py 24 and 85: the default var_name of both plots.
var_name == "navd88_meters"

\* qc_helpers.py 86.
aggregate_name == "qartod_qc_rollup"

\* qc_helpers.py 31: f"{var_name}_qartod_{test_name}".
qc_test_column(variable, test_name) == variable \o "_qartod_" \o test_name

(***************************************************************************)
(* Test configurations assembled by app.py.                                *)
(***************************************************************************)
NoConfig == [defined |-> FALSE]
NoDf == [ran |-> FALSE]

\* A variant of the block below with both spans built from the suspect limits.
GrossRangeTestConfigFromSuspect ==
    [gross_range_test |->
        [suspect_span |-> <<gross_suspect_lower_limit, gross_suspect_upper_limit>>,
         fail_span |-> <<gross_suspect_lower_limit, gross_suspect_upper_limit>>]]

\* app.py 244-249.  Both spans are built from the fail limits.
GrossRangeTestConfig ==
    [gross_range_test |->
        [suspect_span |-> <<gross_fail_lower_limit, gross_fail_upper_limit>>,
         fail_span |-> <<gross_fail_lower_limit, gross_fail_upper_limit>>]]

\* A variant of the block below that reads the spike widget instead.
RateOfChangeTestConfigFromSpike ==
    [rate_of_change_test |-> [threshold |-> spike_suspect_threshold]]

\* app.py 301-305.
RateOfChangeTestConfig ==
    [rate_of_change_test |-> [threshold |-> rate_threshold]]

\* app.py 354-359.
SpikeTestConfig ==
    [spike_test |->
        [suspect_threshold |-> spike_suspect_threshold,
         fail_threshold |-> spike_fail_threshold]]

\* app.py 420-426.
FlatLineTestConfig ==
    [flat_line_test |->
        [tolerance |-> flat_line_tolerance,
         suspect_threshold |-> flat_line_suspect_threshold,
         fail_threshold |-> flat_line_fail_threshold]]

\* {**a, **b}: the entries of b over those of a.
Merge(a, b) == b @@ a

\* A variant of the block below that adds the gross range entry whether or
\* not its toggle is on.
QartodWithGrossRangeAlways ==
    LET q1 == Merge(<<>>, GrossRangeTestConfig)
        q2 == IF rate_of_change_test_toggle
              THEN Merge(q1, rate_of_change_test_config) ELSE q1
        q3 == IF spike_test_toggle
              THEN Merge(q2, spike_test_config) ELSE q2
        q4 == IF flat_line_test_toggle
              THEN Merge(q3, flat_line_test_config) ELSE q3
    IN  q4

\* A variant of the block below that leaves the spike entry out.
QartodWithoutSpike ==
    LET q0 == <<>>
        q1 == IF gross_range_test_toggle
              THEN Merge(q0, gross_range_test_config) ELSE q0
        q2 == IF rate_of_change_test_toggle
              THEN Merge(q1, rate_of_change_test_config) ELSE q1
        q4 == IF flat_line_test_toggle
              THEN Merge(q2, flat_line_test_config) ELSE q2
    IN  q4

\* app.py 448-469: the tests whose toggle is on, in the order of the script.
Qartod ==
    LET q0 == <<>>
        q1 == IF gross_range_test_toggle
              THEN Merge(q0, gross_range_test_config) ELSE q0
        q2 == IF rate_of_change_test_toggle
              THEN Merge(q1, rate_of_change_test_config) ELSE q1
        q3 == IF spike_test_toggle
              THEN Merge(q2, spike_test_config) ELSE q2
        q4 == IF flat_line_test_toggle
              THEN Merge(q3, flat_line_test_config) ELSE q3
    IN  q4

(***************************************************************************)
(* The evaluators behind run_qc (spec.md 4.1 - 4.5, 7).                    *)
(***************************************************************************)
\* spec.md 4.1: one flag per observation, each on its own.
GrossRangeFlag(x, suspect_span, fail_span) ==
    IF IsNaN(x) THEN NOT_EVALUATED
    ELSE IF Num(x) < fail_span[1] \/ Num(x) > fail_span[2] THEN FAIL
    ELSE IF Num(x) < suspect_span[1] \/ Num(x) > suspect_span[2] THEN SUSPECT
    ELSE PASS

GrossRangeTest(df, cfg) ==
    [i \in 1..Len(df) |->
        GrossRangeFlag(df[i].value, cfg.suspect_span, cfg.fail_span)]

\* spec.md 4.2: rate against the immediate predecessor; the threshold is
\* cfg.threshold / 60 per second, so rate > threshold is cross-multiplied.
RateOfChangeFlag(df, i, threshold) ==
    IF i = 1 THEN NOT_EVALUATED
    ELSE IF IsNaN(df[i].value) \/ IsNaN(df[i-1].value) THEN NOT_EVALUATED
    ELSE IF Abs(Num(df[i].value) - Num(df[i-1].value)) * 60
               > threshold * (df[i].time - df[i-1].time)
         THEN SUSPECT
    ELSE PASS

RateOfChangeTest(df, cfg) ==
    [i \in 1..Len(df) |-> RateOfChangeFlag(df, i, cfg.threshold)]

\* spec.md 4.3: twice the spike magnitude is compared with twice the
\* thresholds, so that the halves stay exact.
SpikeFlag(df, i, suspect_threshold, fail_threshold) ==
    IF i = 1 \/ i = Len(df) THEN NOT_EVALUATED
    ELSE IF IsNaN(df[i-1].value) \/ IsNaN(df[i].value) \/ IsNaN(df[i+1].value)
         THEN NOT_EVALUATED
    ELSE LET a == Num(df[i-1].value)
             v == Num(df[i].value)
             b == Num(df[i+1].value)
             m2 == Abs(2 * v - (a + b)) - Abs(b - a)
         IN  IF m2 >= 2 * fail_threshold THEN FAIL
             ELSE IF m2 >= 2 * suspect_threshold THEN SUSPECT
             ELSE PASS

SpikeTest(df, cfg) ==
    [i \in 1..Len(df) |->
        SpikeFlag(df, i, cfg.suspect_threshold, cfg.fail_threshold)]

\* spec.md 4.4: a forward scan carrying the start of the current flat run
\* and its reference value; run.start = 0 while no reading was seen.
RECURSIVE FlatLineScan(_, _, _, _, _)
FlatLineScan(df, cfg, i, run, out) ==
    IF i > Len(df) THEN out
    ELSE IF IsNaN(df[i].value)
         THEN FlatLineScan(df, cfg, i + 1, run, Append(out, NOT_EVALUATED))
    ELSE LET v == Num(df[i].value)
             now == IF run.start = 0 \/ Abs(v - run.ref) > cfg.tolerance
                    THEN [start |-> i, ref |-> v]
                    ELSE run
             flat == df[i].time - df[now.start].time
             flag == IF flat >= cfg.fail_threshold THEN FAIL
                     ELSE IF flat >= cfg.suspect_threshold THEN SUSPECT
                     ELSE PASS
         IN  FlatLineScan(df, cfg, i + 1, now, Append(out, flag))

FlatLineTest(df, cfg) ==
    FlatLineScan(df, cfg, 1, [start |-> 0, ref |-> 0], <<>>)

\* spec.md 4.5: the worst flag per observation; the codes 1 < 2 < 3 < 4 are
\* in the order PASS < NOT_EVALUATED < SUSPECT < FAIL.
Worst(S) == CHOOSE f \in S : \A g \in S : g <= f

Aggregate(flags, n) ==
    [i \in 1..n |->
        IF DOMAIN flags = {} THEN NOT_EVALUATED
        ELSE Worst({flags[t][i] : t \in DOMAIN flags})]

\* spec.md 7: the ordering invariant of a test's thresholds is violated.
ConfigurationError(test, cfg) ==
    CASE test = "gross_range_test" ->
            ~ (/\ cfg.fail_span[1] <= cfg.suspect_span[1]
               /\ cfg.suspect_span[1] <= cfg.suspect_span[2]
               /\ cfg.suspect_span[2] <= cfg.fail_span[2])
      [] test = "spike_test" -> cfg.suspect_threshold > cfg.fail_threshold
      [] test = "flat_line_test" -> cfg.suspect_threshold > cfg.fail_threshold
      [] OTHER -> FALSE

Evaluate(test, df, cfg) ==
    CASE test = "gross_range_test" -> GrossRangeTest(df, cfg)
      [] test = "rate_of_change_test" -> RateOfChangeTest(df, cfg)
      [] test = "spike_test" -> SpikeTest(df, cfg)
      [] test = "flat_line_test" -> FlatLineTest(df, cfg)

(***************************************************************************)
(* qc_helpers.run_qc, 11-18: run every test of the configuration over the  *)
(* frame (13-15), compute the rollup (16) and return the frame beside the  *)
(* flag columns (18).  A configuration error is raised before any test is  *)
(* evaluated, and then nothing is returned.  The flag columns are named    *)
(* after the stream of the configuration.                                  *)
(***************************************************************************)
\* A variant of run_qc that drops the rows without a reading from the frame
\* it was given before it runs the tests.
run_qc_dropping_missing(df, config) ==
    IF \E t \in DOMAIN config : ConfigurationError(t, config[t])
    THEN [raised |-> TRUE, exc |-> "ConfigurationError"]
    ELSE LET HasReading(row) == ~ IsNaN(row.value)
             kept == SelectSeq(df, HasReading)
             results == [t \in DOMAIN config |-> Evaluate(t, kept, config[t])]
         IN  [raised |-> FALSE,
              df |-> [ran |-> TRUE,
                      source |-> kept,
                      flags |-> results,
                      qartod_qc_rollup |-> Aggregate(results, Len(kept)),
                      columns |->
                          AdapterColumns
                          \cup {qc_test_column(stream, t) : t \in DOMAIN config}
                          \cup {aggregate_name}]]

\* A variant of run_qc that returns the flag columns without the frame.
run_qc_flags_only(df, config) ==
    IF \E t \in DOMAIN config : ConfigurationError(t, config[t])
    THEN [raised |-> TRUE, exc |-> "ConfigurationError"]
    ELSE LET results == [t \in DOMAIN config |-> Evaluate(t, df, config[t])]
         IN  [raised |-> FALSE,
              df |-> [ran |-> TRUE,
                      source |-> <<>>,
                      flags |-> results,
                      qartod_qc_rollup |-> Aggregate(results, Len(df)),
                      columns |->
                          {qc_test_column(stream, t) : t \in DOMAIN config}
                          \cup {aggregate_name}]]

run_qc(df, config) ==
    IF \E t \in DOMAIN config : ConfigurationError(t, config[t])
    THEN [raised |-> TRUE, exc |-> "ConfigurationError"]
    ELSE LET results == [t \in DOMAIN config |-> Evaluate(t, df, config[t])]
         IN  [raised |-> FALSE,
              df |-> [ran |-> TRUE,
                      source |-> df,
                      flags |-> results,
                      qartod_qc_rollup |-> Aggregate(results, Len(df)),
                      columns |->
                          AdapterColumns
                          \cup {qc_test_column(stream, t) : t \in DOMAIN config}
                          \cup {aggregate_name}]]

(***************************************************************************)
(* The plots of qc_helpers.py.  np.ma.masked_where(qc_test != code, obs)   *)
(* leaves unmasked the observations whose flag equals the code; a plot is  *)
(* the four sets of row numbers it draws as "qc pass", "qc suspect",       *)
(* "qc fail" and "qc not run".                                             *)
(***************************************************************************)
NoPlot == [drawn |-> FALSE]

Unmasked(qc_test, code) == {i \in 1..Len(qc_test) : qc_test[i] = code}

\* A variant of the masks below in which "qc not run" reads the suspect code.
MasksNotRunFromSuspect(qc_test) ==
    [qc_pass |-> Unmasked(qc_test, 1),
     qc_suspect |-> Unmasked(qc_test, 3),
     qc_fail |-> Unmasked(qc_test, 4),
     qc_notrun |-> Unmasked(qc_test, 3)]

\* qc_helpers.py 40-48 and 95-98.
Masks(qc_test) ==
    [qc_pass |-> Unmasked(qc_test, 1),
     qc_suspect |-> Unmasked(qc_test, 3),
     qc_fail |-> Unmasked(qc_test, 4),
     qc_notrun |-> Unmasked(qc_test, 2)]

\* qc_helpers.py 21-80, called with the default var_name.
plot_results(df, test_name) ==
    [drawn |-> TRUE,
     columns |-> df.columns,
     column |-> qc_test_column(var_name, test_name),
     qc_test |-> df.flags[test_name],
     masks |-> Masks(df.flags[test_name])]

\* qc_helpers.py 83-127, called with the default names.
plot_aggregate(df) ==
    [drawn |-> TRUE,
     columns |-> df.columns,
     column |-> aggregate_name,
     qc_test |-> df.qartod_qc_rollup,
     masks |-> Masks(df.qartod_qc_rollup)]

(***************************************************************************)
(* The station configuration of app.py 489-533.  A number widget left at   *)
(* 0 and a text area left empty are falsy and add no entry.                *)
(***************************************************************************)
NoStationConfig == [built |-> FALSE]

\* app.py 497-520.
Datums ==
    LET d0 == [mhhw |-> datum_inputs.mhhw, mllw |-> datum_inputs.mllw]
        d1 == IF datum_inputs.mhw # 0
              THEN Merge(d0, [mhw |-> datum_inputs.mhw]) ELSE d0
        d2 == IF datum_inputs.mtl # 0
              THEN Merge(d1, [mtl |-> datum_inputs.mtl]) ELSE d1
        d3 == IF datum_inputs.msl # 0
              THEN Merge(d2, [msl |-> datum_inputs.msl]) ELSE d2
        d4 == IF datum_inputs.mlw # 0
              THEN Merge(d3, [mlw |-> datum_inputs.mlw]) ELSE d3
        d5 == IF datum_inputs.calculated
              THEN Merge(d4,
                     [date_calculated |-> datum_inputs.calc_date,
                      calculation_start_date |-> datum_inputs.start_date,
                      calculation_end_date |-> datum_inputs.end_date])
              ELSE d4
    IN  d5

\* A variant of the configuration below that leaves the flat line entry out.
StationConfigWithoutFlatLine(q) ==
    LET kept == [t \in DOMAIN q \ {"flat_line_test"} |-> q[t]]
        c == [station_id |-> station.station_id,
              start_dt |-> station.installation_date,
              latitude |-> station.latitude,
              longitude |-> station.longitude,
              datums |-> [manual_datums |-> Datums],
              qc |-> [qartod |-> [contexts |->
                        <<[streams |-> [observed |-> [qartod |-> kept]]]>>]]]
    IN  IF summary # "" THEN Merge(c, [summary |-> summary]) ELSE c

\* app.py 523-533.
StationConfig(q) ==
    LET c == [station_id |-> station.station_id,
              start_dt |-> station.installation_date,
              latitude |-> station.latitude,
              longitude |-> station.longitude,
              datums |-> [manual_datums |-> Datums],
              qc |-> [qartod |-> [contexts |->
                        <<[streams |-> [observed |-> [qartod |-> q]]]>>]]]
    IN  IF summary # "" THEN Merge(c, [summary |-> summary]) ELSE c

(***************************************************************************)
(* The initial state: the series is loaded and the widgets hold the        *)
(* user's values.  Each specification below varies the inputs of one block *)
(* and keeps the widgets of the other blocks at one legal setting.         *)
(***************************************************************************)
LowerLimits == {-4, -2}
UpperLimits == {2, 4}
\* An upper fail limit below every lower limit: a span entered upside down.
Crossed == {-5}

Untouched ==
    /\ gross_range_test_config = NoConfig
    /\ rate_of_change_test_config = NoConfig
    /\ spike_test_config = NoConfig
    /\ flat_line_test_config = NoConfig
    /\ qartod = NoConfig
    /\ gross_df = NoDf
    /\ rate_of_change_df = NoDf
    /\ spike_df = NoDf
    /\ flat_line_df = NoDf
    /\ all_df = NoDf
    /\ plot = NoPlot
    /\ station_config = NoStationConfig
    /\ error = "none"
    /\ pc = "gross_range"

\* The station of the sidebar and the widgets of the Configuration block.
StationAsUsual ==
    /\ station = [station_id |-> "hohonu-180",
                  installation_date |-> "2021-06-01T00:00:00",
                  latitude |-> 43,
                  longitude |-> -70]
    /\ datum_inputs = [mhhw |-> 1, mllw |-> -1, mhw |-> 0, mtl |-> 0,
                       msl |-> 0, mlw |-> 0, calculated |-> FALSE,
                       calc_date |-> "2026-01-01",
                       start_date |-> "2026-01-01",
                       end_date |-> "2026-01-01"]
    /\ summary = ""

\* ThingsApi.fetch_data and calculate_defaults were not called.
NoDefaults == [calculated |-> FALSE]

NoPeriods ==
    /\ current_date = 0
    /\ dfs = <<>>

\* fetch_data has returned: the answer of the Hohonu API was converted once,
\* the frame is cached and the answer itself is not kept.
AlreadyLoaded ==
    /\ provider = "hohonu"
    /\ navd88_elevation_meters = 0
    /\ response = NoResponse
    /\ cache = [hit |-> TRUE, df |-> data]
    /\ conversions = 1
    /\ reruns = 0
    /\ api_key = "key"
    /\ date_range = <<0, 7>>
    /\ load_data_button = TRUE
    /\ queries = <<"station_info", "data">>
    /\ NoPeriods
    /\ defaults = NoDefaults

GrossAsUsual ==
    /\ gross_suspect_lower_limit = -2
    /\ gross_suspect_upper_limit = 2
    /\ gross_fail_lower_limit = -4
    /\ gross_fail_upper_limit = 4
    /\ gross_range_test_toggle = TRUE

RateAsUsual ==
    /\ rate_threshold = 2
    /\ rate_of_change_test_toggle = TRUE

SpikeAsUsual ==
    /\ spike_suspect_threshold = 1
    /\ spike_fail_threshold = 2
    /\ spike_test_toggle = TRUE

FlatLineAsUsual ==
    /\ flat_line_tolerance = 0
    /\ flat_line_suspect_threshold = 60
    /\ flat_line_fail_threshold = 120
    /\ flat_line_test_toggle = TRUE

\* The lengths of the loaded series; the empty series is one of them.
Lengths == 0..MaxLen

\* The gross range widgets vary, ordering violations included.
Init ==
    /\ \E n \in Lengths : data \in Frames(n, Regular(n))
    /\ gross_suspect_lower_limit \in LowerLimits
    /\ gross_suspect_upper_limit \in UpperLimits
    /\ gross_fail_lower_limit \in LowerLimits
    /\ gross_fail_upper_limit \in UpperLimits \cup Crossed
    /\ gross_range_test_toggle \in BOOLEAN
    /\ RateAsUsual
    /\ SpikeAsUsual
    /\ FlatLineAsUsual
    /\ StationAsUsual
    /\ AlreadyLoaded
    /\ Untouched

(***************************************************************************)
(* The blocks of app.py.  An exception raised by run_qc ends the run: the  *)
(* blocks already shown stay, nothing after the raising block executes.    *)
(***************************************************************************)
\* app.py 238-269.
GrossRangeSection ==
    /\ pc = "gross_range"
    /\ IF ~ gross_range_test_toggle
       THEN /\ pc' = "rate_of_change"
            /\ UNCHANGED <<gross_range_test_config, gross_df, plot, error>>
       ELSE LET r == run_qc(data, GrossRangeTestConfig) IN
            /\ gross_range_test_config' = GrossRangeTestConfig
            /\ IF r.raised
               THEN /\ error' = r.exc
                    /\ pc' = "error"
                    /\ UNCHANGED <<gross_df, plot>>
               ELSE /\ gross_df' = r.df
                    /\ plot' = plot_results(r.df, "gross_range_test")
                    /\ pc' = "rate_of_change"
                    /\ UNCHANGED error
    /\ UNCHANGED <<sidebar, periods, defaults>>
    /\ UNCHANGED <<session, inputs, station_config,
                   rate_of_change_test_config, spike_test_config,
                   flat_line_test_config, qartod, rate_of_change_df,
                   spike_df, flat_line_df, all_df>>

\* app.py 295-324.
RateOfChangeSection ==
    /\ pc = "rate_of_change"
    /\ IF ~ rate_of_change_test_toggle
       THEN /\ pc' = "spike"
            /\ UNCHANGED <<rate_of_change_test_config, rate_of_change_df, plot, error>>
       ELSE LET r == run_qc(data, RateOfChangeTestConfig) IN
            /\ rate_of_change_test_config' = RateOfChangeTestConfig
            /\ IF r.raised
               THEN /\ error' = r.exc
                    /\ pc' = "error"
                    /\ UNCHANGED <<rate_of_change_df, plot>>
               ELSE /\ rate_of_change_df' = r.df
                    /\ plot' = plot_results(r.df, "rate_of_change_test")
                    /\ pc' = "spike"
                    /\ UNCHANGED error
    /\ UNCHANGED <<sidebar, periods, defaults>>
    /\ UNCHANGED <<session, inputs, station_config,
                   gross_range_test_config, spike_test_config,
                   flat_line_test_config, qartod, gross_df, spike_df,
                   flat_line_df, all_df>>

\* app.py 348-378.
SpikeSection ==
    /\ pc = "spike"
    /\ IF ~ spike_test_toggle
       THEN /\ pc' = "flat_line"
            /\ UNCHANGED <<spike_test_config, spike_df, plot, error>>
       ELSE LET r == run_qc(data, SpikeTestConfig) IN
            /\ spike_test_config' = SpikeTestConfig
            /\ IF r.raised
               THEN /\ error' = r.exc
                    /\ pc' = "error"
                    /\ UNCHANGED <<spike_df, plot>>
               ELSE /\ spike_df' = r.df
                    /\ plot' = plot_results(r.df, "spike_test")
                    /\ pc' = "flat_line"
                    /\ UNCHANGED error
    /\ UNCHANGED <<sidebar, periods, defaults>>
    /\ UNCHANGED <<session, inputs, station_config,
                   gross_range_test_config, rate_of_change_test_config,
                   flat_line_test_config, qartod, gross_df, rate_of_change_df,
                   flat_line_df, all_df>>

\* app.py 415-444.
FlatLineSection ==
    /\ pc = "flat_line"
    /\ IF ~ flat_line_test_toggle
       THEN /\ pc' = "aggregated"
            /\ UNCHANGED <<flat_line_test_config, flat_line_df, plot, error>>
       ELSE LET r == run_qc(data, FlatLineTestConfig) IN
            /\ flat_line_test_config' = FlatLineTestConfig
            /\ IF r.raised
               THEN /\ error' = r.exc
                    /\ pc' = "error"
                    /\ UNCHANGED <<flat_line_df, plot>>
               ELSE /\ flat_line_df' = r.df
                    /\ plot' = plot_results(r.df, "flat_line_test")
                    /\ pc' = "aggregated"
                    /\ UNCHANGED error
    /\ UNCHANGED <<sidebar, periods, defaults>>
    /\ UNCHANGED <<session, inputs, station_config,
                   gross_range_test_config, rate_of_change_test_config,
                   spike_test_config, qartod, gross_df, rate_of_change_df,
                   spike_df, all_df>>

\* app.py 447-488.
AggregatedResults ==
    /\ pc = "aggregated"
    /\ qartod' = Qartod
    /\ LET r == run_qc(data, qartod') IN
       IF r.raised
       THEN /\ error' = r.exc
            /\ pc' = "error"
            /\ UNCHANGED <<all_df, plot>>
       ELSE /\ all_df' = r.df
            /\ plot' = plot_aggregate(r.df)
            /\ pc' = "configuration"
            /\ UNCHANGED error
    /\ UNCHANGED <<sidebar, periods, defaults>>
    /\ UNCHANGED <<session, inputs, station_config,
                   gross_range_test_config, rate_of_change_test_config,
                   spike_test_config, flat_line_test_config, gross_df,
                   rate_of_change_df, spike_df, flat_line_df>>

\* app.py 489-551.
Configuration ==
    /\ pc = "configuration"
    /\ station_config' = StationConfig(qartod)
    /\ pc' = "done"
    /\ UNCHANGED <<sidebar, periods, defaults>>
    /\ UNCHANGED <<session, inputs, configs, frames, plot, error>>

Next ==
    \/ GrossRangeSection
    \/ RateOfChangeSection
    \/ SpikeSection
    \/ FlatLineSection
    \/ AggregatedResults
    \/ Configuration

Spec == Init /\ [][Next]_vars

\* The rate of change widget and the sampling interval vary.
Sampling(n) == { [r \in 1..n |-> step * (r - 1)] : step \in {60, 120} }

InitRate ==
    /\ \E n \in Lengths : \E times \in Sampling(n) : data \in Frames(n, times)
    /\ GrossAsUsual
    /\ rate_threshold \in 1..MaxRate
    /\ rate_of_change_test_toggle \in BOOLEAN
    /\ SpikeAsUsual
    /\ FlatLineAsUsual
    /\ StationAsUsual
    /\ AlreadyLoaded
    /\ Untouched

SpecRate == InitRate /\ [][Next]_vars

\* The four toggles vary, and so do the optional entries of the station
\* configuration.
InitToggles ==
    /\ \E n \in Lengths : data \in Frames(n, Regular(n))
    /\ gross_suspect_lower_limit = -2
    /\ gross_suspect_upper_limit = 2
    /\ gross_fail_lower_limit = -4
    /\ gross_fail_upper_limit = 4
    /\ gross_range_test_toggle \in BOOLEAN
    /\ rate_threshold = 2
    /\ rate_of_change_test_toggle \in BOOLEAN
    /\ spike_suspect_threshold = 1
    /\ spike_fail_threshold = 2
    /\ spike_test_toggle \in BOOLEAN
    /\ flat_line_tolerance = 0
    /\ flat_line_suspect_threshold = 60
    /\ flat_line_fail_threshold = 120
    /\ flat_line_test_toggle \in BOOLEAN
    /\ station = [station_id |-> "hohonu-180",
                  installation_date |-> "2021-06-01T00:00:00",
                  latitude |-> 43,
                  longitude |-> -70]
    /\ \E filled \in BOOLEAN :
           /\ datum_inputs = [mhhw |-> 1, mllw |-> -1,
                              mhw |-> IF filled THEN 1 ELSE 0,
                              mtl |-> 0, msl |-> 0, mlw |-> 0,
                              calculated |-> filled,
                              calc_date |-> "2026-01-01",
                              start_date |-> "2026-01-01",
                              end_date |-> "2026-01-01"]
           /\ summary = IF filled THEN "tide gauge" ELSE ""
    /\ AlreadyLoaded
    /\ Untouched

SpecToggles == InitToggles /\ [][Next]_vars

(***************************************************************************)
(* A session: the script runs from the loading of the series, and runs     *)
(* again from the top whenever the user changes a widget.  fetch_data of   *)
(* app.py is wrapped in st.cache_data: called again with the same station  *)
(* and date range it returns the frame it returned before.                 *)
(***************************************************************************)
Providers == {"hohonu", "things", "greenstream"}
Elevations == {1, 2}

\* A variant of fetch_data without the cache.
fetch_data_uncached(c, resp, n) ==
    [df |-> hohonu_response_to_df(resp),
     cache |-> [hit |-> TRUE, df |-> hohonu_response_to_df(resp)],
     conversions |-> n + 1]

\* app.py 50-63: c is the cache, resp what the API answers, n the number of
\* conversions made so far.
fetch_data(c, resp, n) ==
    IF c.hit
    THEN [df |-> c.df, cache |-> c, conversions |-> n]
    ELSE [df |-> hohonu_response_to_df(resp),
          cache |-> [hit |-> TRUE, df |-> hohonu_response_to_df(resp)],
          conversions |-> n + 1]

\* The water levels of the session are tenths of a millimetre, and so are
\* the gross range limits: 2 and 4 feet either side of the datum.
GrossInFeet ==
    /\ gross_suspect_lower_limit = 0 - 2 * FEET_TO_METERS
    /\ gross_suspect_upper_limit = 2 * FEET_TO_METERS
    /\ gross_fail_lower_limit = 0 - 4 * FEET_TO_METERS
    /\ gross_fail_upper_limit = 4 * FEET_TO_METERS
    /\ gross_range_test_toggle = TRUE

NotRunYet ==
    /\ gross_range_test_config = NoConfig
    /\ rate_of_change_test_config = NoConfig
    /\ spike_test_config = NoConfig
    /\ flat_line_test_config = NoConfig
    /\ qartod = NoConfig
    /\ gross_df = NoDf
    /\ rate_of_change_df = NoDf
    /\ spike_df = NoDf
    /\ flat_line_df = NoDf
    /\ all_df = NoDf
    /\ plot = NoPlot
    /\ station_config = NoStationConfig
    /\ error = "none"

InitSession ==
    /\ provider \in Providers
    /\ navd88_elevation_meters \in
           IF provider = "hohonu" THEN {0} ELSE Elevations
    /\ \E n \in Lengths :
           response \in {[answered |-> TRUE, rows |-> rows] :
                            rows \in Frames(n, Regular(n))}
    /\ cache = NoCache
    /\ conversions = 0
    /\ reruns = 0
    /\ api_key = "key"
    /\ date_range = <<0, 7>>
    /\ load_data_button = TRUE
    /\ queries = <<"station_info">>
    /\ NoPeriods
    /\ defaults = NoDefaults
    /\ data = NoDf
    /\ StationAsUsual
    /\ GrossInFeet
    /\ rate_threshold \in 1..MaxRate
    /\ rate_of_change_test_toggle = TRUE
    /\ SpikeAsUsual
    /\ FlatLineAsUsual
    /\ NotRunYet
    /\ pc = "fetch"

\* app.py 122, things_api.py 211 and greenstream_api.py 186-187.  Only
\* app.py goes on to run the tests; the loaders of the other two providers
\* return the frame to their caller.
FetchData ==
    /\ pc = "fetch"
    /\ IF provider = "hohonu"
       THEN LET r == fetch_data(cache, response, conversions) IN
            /\ data' = r.df
            /\ cache' = r.cache
            /\ conversions' = r.conversions
            /\ queries' = IF cache.hit THEN queries
                          ELSE Append(queries, "data")
            /\ pc' = "gross_range"
       ELSE /\ data' = Adapter(provider, navd88_elevation_meters, response)
            /\ conversions' = conversions + 1
            /\ queries' = Append(queries, "data")
            /\ pc' = "returned"
            /\ UNCHANGED cache
    /\ UNCHANGED <<api_key, date_range, load_data_button, periods, defaults>>
    /\ UNCHANGED <<provider, navd88_elevation_meters, response, reruns,
                   station, datum_inputs, summary>>
    /\ UNCHANGED <<gross_suspect_upper_limit, gross_suspect_lower_limit,
                   gross_fail_upper_limit, gross_fail_lower_limit,
                   gross_range_test_toggle, rate_threshold,
                   rate_of_change_test_toggle, spike_suspect_threshold,
                   spike_fail_threshold, spike_test_toggle,
                   flat_line_tolerance, flat_line_suspect_threshold,
                   flat_line_fail_threshold, flat_line_test_toggle>>
    /\ UNCHANGED <<configs, frames, plot, station_config, error>>

\* The user moves the rate of change widget (app.py 287) after a run: the
\* script starts again from the top with every name of the last run gone.
Rerun ==
    /\ pc \in {"done", "error"}
    /\ reruns < MaxReruns
    /\ reruns' = reruns + 1
    /\ \E t \in 1..MaxRate : t # rate_threshold /\ rate_threshold' = t
    /\ gross_range_test_config' = NoConfig
    /\ rate_of_change_test_config' = NoConfig
    /\ spike_test_config' = NoConfig
    /\ flat_line_test_config' = NoConfig
    /\ qartod' = NoConfig
    /\ gross_df' = NoDf
    /\ rate_of_change_df' = NoDf
    /\ spike_df' = NoDf
    /\ flat_line_df' = NoDf
    /\ all_df' = NoDf
    /\ plot' = NoPlot
    /\ station_config' = NoStationConfig
    /\ error' = "none"
    /\ data' = NoDf
    /\ pc' = "fetch"
    /\ UNCHANGED <<sidebar, periods, defaults>>
    /\ UNCHANGED <<provider, navd88_elevation_meters, response, cache,
                   conversions, station, datum_inputs, summary>>
    /\ UNCHANGED <<gross_suspect_upper_limit,
                   gross_suspect_lower_limit, gross_fail_upper_limit,
                   gross_fail_lower_limit, gross_range_test_toggle,
                   rate_of_change_test_toggle, spike_suspect_threshold,
                   spike_fail_threshold, spike_test_toggle,
                   flat_line_tolerance, flat_line_suspect_threshold,
                   flat_line_fail_threshold, flat_line_test_toggle>>

NextSession ==
    \/ FetchData
    \/ GrossRangeSection
    \/ RateOfChangeSection
    \/ SpikeSection
    \/ FlatLineSection
    \/ AggregatedResults
    \/ Configuration
    \/ Rerun

SpecSession == InitSession /\ [][NextSession]_vars

(***************************************************************************)
(* The top of app.py: the API key, the station, the date range and the     *)
(* "Load data" toggle.  st.stop() ends the run where it is called.  The    *)
(* toggle is drawn disabled when the range is too long; a disabled toggle  *)
(* cannot be moved, and holds the value it had in the run before.          *)
(***************************************************************************)
\* app.py 105: date_range[1] - date_range[0] > timedelta(days=30).
too_long(range) == range[2] - range[1] > 30

\* app.py 20-38.
ApiKey ==
    /\ pc = "api_key"
    /\ pc' = IF api_key = "" THEN "stopped" ELSE "station_selector"
    /\ UNCHANGED <<sidebar, periods, defaults, session, inputs, configs,
                   frames, plot, station_config, error>>

\* app.py 67-89: load_station_info asks the provider for the station.
StationSelector ==
    /\ pc = "station_selector"
    /\ queries' = Append(queries, "station_info")
    /\ pc' = "data_selector"
    /\ UNCHANGED <<api_key, date_range, load_data_button, periods, defaults,
                   session, inputs, configs, frames, plot, station_config,
                   error>>

\* A variant of the block below that goes on whatever the toggle says.
DataSelectorWithoutStop ==
    /\ pc = "data_selector"
    /\ \E last \in 0..MaxDays, moved \in BOOLEAN :
           /\ date_range' = <<0, last>>
           /\ load_data_button' = IF too_long(date_range')
                                      THEN load_data_button
                                      ELSE moved
    /\ pc' = "fetch"
    /\ UNCHANGED <<api_key, queries, periods, defaults, session, inputs,
                   configs, frames, plot, station_config, error>>

\* app.py 91-119: the date range is picked (96), the toggle is drawn and,
\* unless disabled, set (112), and the run stops when it is off (114-119).
DataSelector ==
    /\ pc = "data_selector"
    /\ \E last \in 0..MaxDays, moved \in BOOLEAN :
           /\ date_range' = <<0, last>>
           /\ load_data_button' = IF too_long(date_range')
                                      THEN load_data_button
                                      ELSE moved
    /\ pc' = IF ~ load_data_button' THEN "stopped" ELSE "fetch"
    /\ UNCHANGED <<api_key, queries, periods, defaults, session, inputs,
                   configs, frames, plot, station_config, error>>

\* Any API key, the date range of the run before, and the toggle as that run
\* left it.
InitGates ==
    /\ api_key \in {"", "key"}
    /\ date_range = <<0, 7>>
    /\ load_data_button \in BOOLEAN
    /\ queries = <<>>
    /\ NoPeriods
    /\ defaults = NoDefaults
    /\ provider = "hohonu"
    /\ navd88_elevation_meters = 0
    /\ \E n \in 0..1 :
           response \in {[answered |-> TRUE, rows |-> rows] :
                            rows \in Frames(n, Regular(n))}
    /\ cache = NoCache
    /\ conversions = 0
    /\ reruns = 0
    /\ data = NoDf
    /\ StationAsUsual
    /\ GrossInFeet
    /\ RateAsUsual
    /\ SpikeAsUsual
    /\ FlatLineAsUsual
    /\ NotRunYet
    /\ pc = "api_key"

NextGates ==
    \/ ApiKey
    \/ StationSelector
    \/ DataSelector
    \/ FetchData
    \/ GrossRangeSection
    \/ RateOfChangeSection
    \/ SpikeSection
    \/ FlatLineSection
    \/ AggregatedResults
    \/ Configuration

SpecGates == InitGates /\ [][NextGates]_vars

(***************************************************************************)
(* ThingsApi.fetch_data and generate_time_periods.  Dates are days and     *)
(* datetimes are seconds since day 0; time.max, 23:59:59.999999, is the    *)
(* last second of its day.  queries holds the (after, before) pair of      *)
(* every fetch_segment request, dfs the frames it returned.  A segment     *)
(* holds no row or one row received at the start of its period; a request  *)
(* can also fail, and raise_for_status then ends the call.                 *)
(***************************************************************************)
\* things_api.py 122: datetime.combine(start_date, time.min).
CombineMin(day) == day * (24 * 3600)

\* A variant of the definition below that stops at the start of the day.
CombineMaxAtMidnight(day) == day * (24 * 3600)

\* things_api.py 123: datetime.combine(end_date, time.max).
CombineMax(day) == day * (24 * 3600) + (24 * 3600 - 1)

\* things_api.py 76: pd.concat(dfs, ignore_index=True).
RECURSIVE concat(_)
concat(segments) ==
    IF segments = <<>> THEN <<>>
    ELSE Head(segments) \o concat(Tail(segments))

\* What the storage API can answer for the period starting at a time.
Segments(after) ==
    {<<>>, <<[time |-> after, value |-> Reading(1)]>>}

\* things_api.py 211 and 120-122: the loader calls fetch_data, and the
\* generator starts at the first midnight.
ThingsFetchData ==
    /\ pc = "things"
    /\ current_date' = CombineMin(date_range[1])
    /\ dfs' = <<>>
    /\ pc' = "periods"
    /\ UNCHANGED <<sidebar, defaults, session, inputs, configs, frames,
                   plot, station_config, error>>

\* things_api.py 125-129 and 72-74, 30-58: one turn of the loop.
ThingsFetchSegment ==
    /\ pc = "periods"
    /\ current_date < CombineMax(date_range[2])
    /\ LET next_date == current_date + 6 * 3600
       IN  /\ queries' = Append(queries, <<current_date, next_date>>)
           /\ \/ /\ \E df \in Segments(current_date) :
                        dfs' = Append(dfs, df)
                 /\ current_date' = next_date
                 /\ UNCHANGED <<error, pc>>
              \/ /\ error' = "HTTPError"
                 /\ pc' = "error"
                 /\ UNCHANGED <<current_date, dfs>>
    /\ UNCHANGED <<api_key, date_range, load_data_button, defaults, session,
                   inputs, configs, frames, plot, station_config>>

\* things_api.py 76-81: after the loop.  A frame without rows has no
\* column, and df["recieved_at"] raises.
ThingsConcat ==
    /\ pc = "periods"
    /\ ~ (current_date < CombineMax(date_range[2]))
    /\ IF concat(dfs) = <<>>
       THEN /\ error' = "KeyError"
            /\ pc' = "error"
            /\ UNCHANGED <<data, conversions>>
       ELSE /\ data' = NavdFromDistance(navd88_elevation_meters, concat(dfs))
            /\ conversions' = conversions + 1
            /\ pc' = "returned"
            /\ UNCHANGED error
    /\ UNCHANGED <<sidebar, periods, defaults, provider,
                   navd88_elevation_meters, response, cache, reruns, station,
                   datum_inputs, summary, gross_suspect_upper_limit,
                   gross_suspect_lower_limit, gross_fail_upper_limit,
                   gross_fail_lower_limit, gross_range_test_toggle,
                   rate_threshold, rate_of_change_test_toggle,
                   spike_suspect_threshold, spike_fail_threshold,
                   spike_test_toggle, flat_line_tolerance,
                   flat_line_suspect_threshold, flat_line_fail_threshold,
                   flat_line_test_toggle, configs, frames, plot,
                   station_config>>

\* Every date range with start_date <= end_date up to LastDay.
\* Until fetch_data returns, data is a frame without rows.
InitThings ==
    /\ provider = "things"
    /\ navd88_elevation_meters \in Elevations
    /\ response = NoResponse
    /\ cache = NoCache
    /\ conversions = 0
    /\ reruns = 0
    /\ api_key = "key"
    /\ date_range \in {<<start_date, end_date>> :
                          start_date \in 0..LastDay,
                          end_date \in 0..LastDay}
    /\ date_range[1] <= date_range[2]
    /\ load_data_button = TRUE
    /\ queries = <<>>
    /\ NoPeriods
    /\ defaults = NoDefaults
    /\ data = <<>>
    /\ StationAsUsual
    /\ GrossInFeet
    /\ RateAsUsual
    /\ SpikeAsUsual
    /\ FlatLineAsUsual
    /\ NotRunYet
    /\ pc = "things"

NextThings ==
    \/ ThingsFetchData
    \/ ThingsFetchSegment
    \/ ThingsConcat

SpecThings == InitThings /\ [][NextThings]_vars

\* The call is sequential code: it keeps running until it returns or raises.
\* Every step of it moves pc or current_date.
FairSpecThings == SpecThings /\ WF_<<pc, current_date>>(NextThings)

(***************************************************************************)
(* GulfOfMaine.calculate_defaults.  Levels here are hundredths of a        *)
(* millimetre, so that a tenth of a foot is FEET_TO_METERS of them, and    *)
(* the sums are exact.                                                     *)
(***************************************************************************)
\* A variant of the definition below that takes six feet off the upper
\* limits.
calculate_defaults_upper_lowered(mllw, mhhw) ==
    [calculated |-> TRUE,
     gross_range |->
         [suspect_upper_limit |-> mhhw - 60 * FEET_TO_METERS,
          suspect_lower_limit |-> mllw - 45 * FEET_TO_METERS,
          fail_upper_limit |-> mhhw - 60 * FEET_TO_METERS,
          fail_lower_limit |-> mllw - 45 * FEET_TO_METERS],
     rate_of_change |->
         [rate_threshold |-> (75 * FEET_TO_METERS) \div 10],
     spike |->
         [suspect_threshold |-> (75 * FEET_TO_METERS) \div 10,
          fail_threshold |-> 15 * FEET_TO_METERS],
     flat_line |->
         [tolerance |-> 1 * FEET_TO_METERS,
          suspect_threshold |-> 2 * 60 * 60,
          fail_threshold |-> 3 * 60 * 60]]

\* regions/model.py 139-159.
calculate_defaults(mllw, mhhw) ==
    [calculated |-> TRUE,
     gross_range |->
         [suspect_upper_limit |-> mhhw + 60 * FEET_TO_METERS,
          suspect_lower_limit |-> mllw - 45 * FEET_TO_METERS,
          fail_upper_limit |-> mhhw + 60 * FEET_TO_METERS,
          fail_lower_limit |-> mllw - 45 * FEET_TO_METERS],
     rate_of_change |->
         [rate_threshold |-> (75 * FEET_TO_METERS) \div 10],
     spike |->
         [suspect_threshold |-> (75 * FEET_TO_METERS) \div 10,
          fail_threshold |-> 15 * FEET_TO_METERS],
     flat_line |->
         [tolerance |-> 1 * FEET_TO_METERS,
          suspect_threshold |-> 2 * 60 * 60,
          fail_threshold |-> 3 * 60 * 60]]

\* One call of calculate_defaults with the station's datums.
CalculateDefaults ==
    /\ pc = "defaults"
    /\ defaults' = calculate_defaults(datum_inputs.mllw, datum_inputs.mhhw)
    /\ pc' = "returned"
    /\ UNCHANGED <<sidebar, periods, session, inputs, configs, frames, plot,
                   station_config, error>>

\* Datums every half metre between -MaxVal and MaxVal half metres, in
\* either order.
Levels == {50000 * v : v \in (0 - MaxVal)..MaxVal}

InitDefaults ==
    /\ provider = "hohonu"
    /\ navd88_elevation_meters = 0
    /\ response = NoResponse
    /\ cache = NoCache
    /\ conversions = 0
    /\ reruns = 0
    /\ api_key = "key"
    /\ date_range = <<0, 7>>
    /\ load_data_button = FALSE
    /\ queries = <<>>
    /\ NoPeriods
    /\ defaults = NoDefaults
    /\ data = NoDf
    /\ station = [station_id |-> "hohonu-180",
                  installation_date |-> "2021-06-01T00:00:00",
                  latitude |-> 43,
                  longitude |-> -70]
    /\ \E mllw \in Levels, mhhw \in Levels :
           datum_inputs = [mhhw |-> mhhw, mllw |-> mllw, mhw |-> 0,
                           mtl |-> 0, msl |-> 0, mlw |-> 0,
                           calculated |-> FALSE,
                           calc_date |-> "2026-01-01",
                           start_date |-> "2026-01-01",
                           end_date |-> "2026-01-01"]
    /\ summary = ""
    /\ GrossInFeet
    /\ RateAsUsual
    /\ SpikeAsUsual
    /\ FlatLineAsUsual
    /\ NotRunYet
    /\ pc = "defaults"

NextDefaults == CalculateDefaults

SpecDefaults == InitDefaults /\ [][NextDefaults]_vars

(***************************************************************************)
(* Properties.                                                             *)
(***************************************************************************)
\* The ordering the gross range thresholds entered by the user must have.
GrossOrdering ==
    /\ gross_fail_lower_limit <= gross_suspect_lower_limit
    /\ gross_suspect_lower_limit <= gross_suspect_upper_limit
    /\ gross_suspect_upper_limit <= gross_fail_upper_limit

\* The flag the gross range contract gives a value under the four limits
\* entered by the user.
GrossFlagOfLimits(x) ==
    IF IsNaN(x) THEN NOT_EVALUATED
    ELSE IF Num(x) < gross_fail_lower_limit \/ Num(x) > gross_fail_upper_limit
         THEN FAIL
    ELSE IF Num(x) < gross_suspect_lower_limit
                \/ Num(x) > gross_suspect_upper_limit
         THEN SUSPECT
    ELSE PASS

GrossFlags == gross_df.flags.gross_range_test

\* C4: once the gross range block has run with correctly ordered limits,
\* every observation carries the flag of the contract: NOT_EVALUATED when
\* missing, FAIL outside the fail span, SUSPECT outside the suspect span,
\* PASS otherwise.  (Stated as claimed; the run of app.py violates it.)
C4_GrossRangeClassification ==
    (gross_df.ran /\ GrossOrdering) =>
        \A i \in 1..Len(data) : GrossFlags[i] = GrossFlagOfLimits(data[i].value)

OrderingViolated ==
    \/ gross_range_test_toggle /\ ~ GrossOrdering
    \/ spike_test_toggle /\ spike_suspect_threshold > spike_fail_threshold
    \/ flat_line_test_toggle
          /\ flat_line_suspect_threshold > flat_line_fail_threshold

\* C6: when the entered thresholds violate an ordering invariant, the run
\* (here: over at least one observation) returns no flag sequence at all,
\* from no block.  (Stated as claimed; violated when the suspect limits lie
\* outside the fail limits.)
C6_ConfigurationErrorsFailFast ==
    (OrderingViolated /\ Len(data) > 0) =>
        /\ gross_df = NoDf
        /\ rate_of_change_df = NoDf
        /\ spike_df = NoDf
        /\ flat_line_df = NoDf
        /\ all_df = NoDf

RateFlags == rate_of_change_df.flags.rate_of_change_test

\* Observation i and its predecessor are readings 60 seconds apart.
OneMinuteApart(i) ==
    /\ i > 1
    /\ ~ IsNaN(data[i].value)
    /\ ~ IsNaN(data[i-1].value)
    /\ data[i].time - data[i-1].time = 60

\* |value[i] - value[i-1]|; rate_threshold holds rate_threshold x 60.
Step(i) == Abs(Num(data[i].value) - Num(data[i-1].value))

Native(i) == response.rows[i].value

\* Row i of a frame is the native reading i converted once from feet.
OnceFromFeet(df, i) ==
    /\ df[i].time = response.rows[i].time
    /\ IsNaN(df[i].value) <=> IsNaN(Native(i))
    /\ ~ IsNaN(Native(i)) =>
           Num(df[i].value) = Num(Native(i)) * FEET_TO_METERS

\* C16: once a provider's answer is loaded, a Hohonu reading is the native
\* feet times 0.3048, a Things or Greenstream reading is the sensor
\* elevation minus the native millimetres over 1000, so that a strictly
\* larger distance gives a strictly lower water level, and a missing native
\* reading stays missing.
C16_UnitAndDatumNormalization ==
    pc # "fetch" =>
        /\ Len(data) = Len(response.rows)
        /\ \A i \in 1..Len(data) :
               /\ IsNaN(data[i].value) <=> IsNaN(Native(i))
               /\ (provider = "hohonu" /\ ~ IsNaN(Native(i))) =>
                      Num(data[i].value) = Num(Native(i)) * 3048
               /\ (provider # "hohonu" /\ ~ IsNaN(Native(i))) =>
                      Num(data[i].value) * 1000
                          = (navd88_elevation_meters * 1000 - Num(Native(i)))
                                * 10000
        /\ \A i, j \in 1..Len(data) :
               (/\ provider # "hohonu"
                /\ ~ IsNaN(Native(i))
                /\ ~ IsNaN(Native(j))
                /\ Num(Native(i)) > Num(Native(j))) =>
                   Num(data[i].value) < Num(data[j].value)

\* A distance provider has answered with two different distances, and the
\* frame is loaded.
C16_Witness ==
    /\ pc = "returned"
    /\ provider = "things"
    /\ \E i, j \in 1..Len(data) :
           /\ ~ IsNaN(Native(i))
           /\ ~ IsNaN(Native(j))
           /\ Num(Native(i)) > Num(Native(j))

\* The frames the five run_qc calls of a run have returned so far.
Returned ==
    {df \in {gross_df, rate_of_change_df, spike_df, flat_line_df, all_df} :
        df.ran}

\* C17: in a session of app.py the conversion is made once for the series,
\* before any test runs: every frame run_qc has seen, per test or for the
\* rollup, holds each native reading converted exactly once, and a run
\* started again after a threshold was changed converts nothing anew.
C17_NormalizedOnceBeforeAnyTest ==
    provider = "hohonu" =>
        /\ conversions <= 1
        /\ \A df \in Returned :
               /\ conversions = 1
               /\ Len(df.source) = Len(response.rows)
               /\ \A i \in 1..Len(df.source) : OnceFromFeet(df.source, i)

\* The script was started again with another threshold and has run all five
\* run_qc calls over a series with a reading in it.
C17_Witness ==
    /\ provider = "hohonu"
    /\ reruns > 0
    /\ pc = "done"
    /\ all_df.ran
    /\ \E i \in 1..Len(all_df.source) : ~ IsNaN(Native(i)) /\ Num(Native(i)) # 0

(***************************************************************************)
(* Properties of the frames, the toggles, the plots and the station        *)
(* configuration.                                                          *)
(***************************************************************************)
\* The tests whose toggle is on.
Enabled ==
    {t \in {"gross_range_test"} : gross_range_test_toggle}
    \cup {t \in {"rate_of_change_test"} : rate_of_change_test_toggle}
    \cup {t \in {"spike_test"} : spike_test_toggle}
    \cup {t \in {"flat_line_test"} : flat_line_test_toggle}

\* The frame the block of a test has assigned.
FrameOf(t) ==
    CASE t = "gross_range_test" -> gross_df
      [] t = "rate_of_change_test" -> rate_of_change_df
      [] t = "spike_test" -> spike_df
      [] t = "flat_line_test" -> flat_line_df

\* The configuration the block of a test has assigned.
ConfigOf(t) ==
    CASE t = "gross_range_test" -> gross_range_test_config
      [] t = "rate_of_change_test" -> rate_of_change_test_config
      [] t = "spike_test" -> spike_test_config
      [] t = "flat_line_test" -> flat_line_test_config

\* C12: every frame run_qc returns, for one test or for the rollup and for
\* a series of any length, 0 and 1 included, holds the rows of the series
\* unchanged and in order, one flag per row for every test of the
\* configuration, and one rollup flag per row.
C12_LengthAndAlignment ==
    \A df \in Returned :
        /\ df.source = data
        /\ AdapterColumns \subseteq df.columns
        /\ \A t \in DOMAIN df.flags : Len(df.flags[t]) = Len(data)
        /\ Len(df.qartod_qc_rollup) = Len(data)

\* The rollup over all four tests was computed for a series of two rows.
C12_Witness ==
    /\ all_df.ran
    /\ DOMAIN all_df.flags
           = {"gross_range_test", "rate_of_change_test", "spike_test",
              "flat_line_test"}
    /\ Len(data) = 2

\* C15: the mapping handed to run_qc for the rollup has an entry for a test
\* exactly when its toggle is on; the rollup frame has a flag sequence for
\* those tests and no other, so that every rollup flag is the worst of the
\* enabled tests' flags; the configuration of a disabled test is never
\* built, and so never read.
C15_AbsentTestsAreAbsent ==
    /\ qartod # NoConfig => DOMAIN qartod = Enabled
    /\ \A t \in Enabled : qartod # NoConfig => qartod[t] = ConfigOf(t)[t]
    /\ \A t \in {"gross_range_test", "rate_of_change_test", "spike_test",
                 "flat_line_test"} \ Enabled :
           ConfigOf(t) = NoConfig /\ FrameOf(t) = NoDf
    /\ all_df.ran =>
           /\ DOMAIN all_df.flags = Enabled
           /\ \A t \in Enabled : all_df.flags[t] = FrameOf(t).flags[t]
           /\ \A i \in 1..Len(data) :
                  all_df.qartod_qc_rollup[i] =
                      IF Enabled = {} THEN NOT_EVALUATED
                      ELSE Worst({FrameOf(t).flags[t][i] : t \in Enabled})

\* The rollup ran with the gross range test off, over a reading that the
\* gross range test fails, and with another test on.
C15_Witness ==
    /\ all_df.ran
    /\ ~ gross_range_test_toggle
    /\ Enabled # {}
    /\ \E i \in 1..Len(data) :
           /\ ~ IsNaN(data[i].value)
           /\ Num(data[i].value) > gross_fail_upper_limit
           /\ all_df.qartod_qc_rollup[i] # FAIL

\* The keys a station configuration may have.
ConfigKeys ==
    {"station_id", "start_dt", "latitude", "longitude", "datums", "qc",
     "summary"}

\* C18: the qartod mapping of the exported station configuration is the
\* mapping the rollup ran with, and the configuration holds the station,
\* the datums and the thresholds only: no flag and no frame.
C18_ConfigurationArtifact ==
    station_config # NoStationConfig =>
        LET exported ==
                station_config.qc.qartod.contexts[1].streams.observed.qartod
        IN  /\ exported = qartod
            /\ DOMAIN exported = DOMAIN all_df.flags
            /\ \A t \in DOMAIN exported : exported[t] = ConfigOf(t)[t]
            /\ DOMAIN station_config \subseteq ConfigKeys
            /\ station_config.station_id = station.station_id
            /\ station_config.start_dt = station.installation_date
            /\ station_config.latitude = station.latitude
            /\ station_config.longitude = station.longitude
            /\ station_config.datums.manual_datums.mhhw = datum_inputs.mhhw
            /\ station_config.datums.manual_datums.mllw = datum_inputs.mllw

\* The configuration was exported with the flat line and the rate of change
\* tests on and the spike test off.
C18_Witness ==
    /\ pc = "done"
    /\ station_config # NoStationConfig
    /\ flat_line_test_toggle
    /\ rate_of_change_test_toggle
    /\ ~ spike_test_toggle
    /\ summary # ""

\* The class a flag code denotes.
ClassOf(f) ==
    CASE f = PASS -> "qc_pass"
      [] f = NOT_EVALUATED -> "qc_notrun"
      [] f = SUSPECT -> "qc_suspect"
      [] f = FAIL -> "qc_fail"

\* C19: in the figure drawn by plot_results or plot_aggregate from flags
\* that are all PASS = 1, NOT_EVALUATED = 2, SUSPECT = 3 or FAIL = 4, every
\* observation is unmasked in the class its flag denotes and masked in the
\* other three.
C19_OneClassPerObservation ==
    (plot.drawn /\ \A i \in 1..Len(plot.qc_test) : plot.qc_test[i] \in Flags)
    =>
        \A i \in 1..Len(plot.qc_test) :
            \A c \in {"qc_pass", "qc_notrun", "qc_suspect", "qc_fail"} :
                i \in plot.masks[c] <=> c = ClassOf(plot.qc_test[i])

\* The rollup was plotted over a FAIL and a NOT_EVALUATED flag.
C19_Witness ==
    /\ plot.drawn
    /\ plot.column = aggregate_name
    /\ \E i, j \in 1..Len(plot.qc_test) :
           plot.qc_test[i] = FAIL /\ plot.qc_test[j] = NOT_EVALUATED

\* C20: the figure drawn last found its columns in the frame it was given:
\* the time, the water level under var_name, and the flag column, which is
\* <var_name>_qartod_<test_name> for a test and qartod_qc_rollup for the
\* rollup.
C20_PlotsFindTheirColumns ==
    plot.drawn =>
        /\ "time" \in plot.columns
        /\ var_name \in plot.columns
        /\ plot.column \in plot.columns

\* The flag sequences a frame holds: one per test, and the rollup.
FlagSequences(df) == {df.flags[t] : t \in DOMAIN df.flags} \cup {df.qartod_qc_rollup}

C23_GrossRangeConfigAssembly ==
    gross_range_test_config # NoConfig =>
        /\ gross_range_test_config.gross_range_test.suspect_span
               = <<gross_suspect_lower_limit, gross_suspect_upper_limit>>
        /\ gross_range_test_config.gross_range_test.fail_span
               = <<gross_fail_lower_limit, gross_fail_upper_limit>>
        /\ station_config # NoStationConfig =>
               station_config.qc.qartod.contexts[1].streams.observed.qartod
                   .gross_range_test
               = gross_range_test_config.gross_range_test

Queried == {queries[i] : i \in 1..Len(queries)}

\* C24: data is fetched from the provider only for a date range of less than
\* 30 days.
C24_DateRangeGate ==
    "data" \in Queried => date_range[2] - date_range[1] < 30

\* C25: with an empty API key the provider is never asked for anything;
\* with the "Load data" toggle off no data is fetched, no run_qc call is
\* made and no station configuration is built; and where a gate has stopped
\* the run, nothing after the gate has executed.
C25_GatingOrder ==
    /\ api_key = "" => queries = <<>>
    /\ ~ load_data_button =>
           /\ "data" \notin Queried
           /\ conversions = 0
           /\ Returned = {}
           /\ station_config = NoStationConfig
    /\ pc = "stopped" =>
           /\ "data" \notin Queried
           /\ conversions = 0
           /\ Returned = {}
           /\ plot = NoPlot
           /\ station_config = NoStationConfig
           /\ api_key # "" => queries = <<"station_info">>

\* The run was stopped at the toggle, after the station was looked up with
\* an API key.
C25_Witness ==
    /\ pc = "stopped"
    /\ api_key # ""
    /\ ~ load_data_button
    /\ queries = <<"station_info">>

\* The periods asked for so far are consecutive six-hour periods from the
\* first midnight of the range.
ConsecutivePeriods ==
    /\ Len(queries) > 0 => queries[1][1] = date_range[1] * 86400
    /\ \A i \in 1..Len(queries) : queries[i][2] = queries[i][1] + 21600
    /\ \A i \in 2..Len(queries) :
           /\ queries[i][1] = queries[i - 1][2]
           /\ queries[i][1] > queries[i - 1][1]

\* The loop has ended and every request was answered.
Fetched == pc = "returned" \/ (pc = "error" /\ error = "KeyError")

\* The rows of the returned series are the rows of the segments, in the
\* order of the periods.
ConcatenatedInOrder ==
    /\ Len(dfs) = Len(queries)
    /\ \A i \in 1..Len(dfs) :
           \A r \in 1..Len(dfs[i]) :
               /\ queries[i][1] <= dfs[i][r].time
               /\ dfs[i][r].time < queries[i][2]
    /\ pc = "returned" =>
           /\ Len(data) = Cardinality({i \in 1..Len(dfs) : dfs[i] # <<>>})
           /\ \A i \in 1..Len(data) :
                  \E k \in 1..Len(dfs) :
                      /\ dfs[k] # <<>>
                      /\ dfs[k][1].time = data[i].time
                      /\ Cardinality({j \in 1..k : dfs[j] # <<>>}) = i

\* C26: generate_time_periods(start_date, end_date) with start_date <=
\* end_date terminates; its periods are consecutive six-hour periods in
\* increasing order, the first starting at start_date 00:00, each starting
\* where the one before ended, the last ending at or after end_date
\* 23:59:59.999999, four for every calendar day of the range; and
\* ThingsApi.fetch_data fetches every period once, in order, and
\* concatenates the segments in that order.
C26_PeriodsCoverTheRange ==
    /\ [](pc \in {"periods", "returned", "error"} =>
              /\ ConsecutivePeriods
              /\ Fetched =>
                     /\ Len(queries) = 4 * (date_range[2] - date_range[1] + 1)
                     /\ queries[Len(queries)][2]
                            >= date_range[2] * 86400 + 86399 + 1
                     /\ ConcatenatedInOrder)
    /\ <>(pc \in {"returned", "error"})

\* Two days were fetched in eight periods, some of them empty, and the rows
\* of the others were returned.
C26_Witness ==
    /\ pc = "returned"
    /\ date_range[1] < date_range[2]
    /\ Len(queries) >= 8
    /\ Len(data) >= 2
    /\ \E i \in 1..Len(dfs) : dfs[i] = <<>>

\* C27: for mllw <= mhhw the defaults of calculate_defaults have
\* fail_lower_limit <= suspect_lower_limit <= suspect_upper_limit <=
\* fail_upper_limit, the suspect upper limit 6 feet (1.8288 m) above mhhw
\* and the suspect lower limit 4.5 feet (1.3716 m) below mllw, the spike
\* suspect threshold at most the fail threshold and the flat line suspect
\* threshold at most the fail threshold; and the rate of change, spike and
\* flat line defaults are the same whatever mllw and mhhw are.
C27_DefaultsAreOrdered ==
    defaults.calculated =>
        /\ datum_inputs.mllw <= datum_inputs.mhhw =>
               /\ defaults.gross_range.fail_lower_limit
                      <= defaults.gross_range.suspect_lower_limit
               /\ defaults.gross_range.suspect_lower_limit
                      <= defaults.gross_range.suspect_upper_limit
               /\ defaults.gross_range.suspect_upper_limit
                      <= defaults.gross_range.fail_upper_limit
        /\ defaults.gross_range.suspect_upper_limit
               = datum_inputs.mhhw + 182880
        /\ defaults.gross_range.suspect_lower_limit
               = datum_inputs.mllw - 137160
        /\ defaults.spike.suspect_threshold <= defaults.spike.fail_threshold
        /\ defaults.flat_line.suspect_threshold
               <= defaults.flat_line.fail_threshold
        /\ defaults.rate_of_change = [rate_threshold |-> 22860]
        /\ defaults.spike = [suspect_threshold |-> 22860,
                             fail_threshold |-> 45720]
        /\ defaults.flat_line = [tolerance |-> 3048,
                                 suspect_threshold |-> 7200,
                                 fail_threshold |-> 10800]

\* The defaults were calculated for a station whose two datums are equal.
C27_Witness ==
    /\ pc = "returned"
    /\ defaults.calculated
    /\ datum_inputs.mllw = datum_inputs.mhhw
    /\ defaults.gross_range.suspect_lower_limit
           < defaults.gross_range.suspect_upper_limit

====
